---- MODULE Spec2Model ----
(***************************************************************************)
(* Selection commands of the amp editor (src/commands/selection.rs):       *)
(* delete, copy_and_delete, change, copy, select_all, copy_to_clipboard    *)
(* and sort_lines, run against a text buffer, a cursor, the application    *)
(* mode and the clipboard.                                                 *)
(*                                                                         *)
(* Text is a sequence of character codes. Positions are (line, offset)     *)
(* records, offsets into the text are 0-based, NoOffset stands for None.   *)
(***************************************************************************)
EXTENDS Integers, Sequences, FiniteSets, TLC

VARIABLES app, pre, cmd, result, aux, prev, steps

vars == <<app, pre, cmd, result, aux, prev, steps>>

\* ---------------------------------------------------------------- bounds
\* longest initial text
MaxLen == 3
\* commands run in a row
MaxSteps == 2

\* ------------------------------------------------------------- characters
NL == 10
Letters == {97, 98}
Alphabet == Letters \cup {NL}

NoOffset == 0 - 1

OK == "Ok"
BUFFER_MISSING == "No buffer available"
ERR_DELETE_MODE == "Can't delete selections outside of select mode"
ERR_DELETE_SEARCH == "Can't delete in search mode without a selected result"
ERR_COPY_MODE == "Can't copy data to clipboard outside of select modes"
ERR_COPY_READ == "Couldn't read selected data from buffer"
ERR_SORT_MODE == "Can't sort lines outside of select line mode"
ERR_SORT_READ == "Couldn't read lines to sort from buffer"
ERR_CLIPBOARD == "clipboard error"
ERR_SWITCH == "mode switch error"
ERR_SCROLL == "scroll error"

\* --------------------------------------------------- positions and ranges
Position(l, o) == [line |-> l, offset |-> o]

PosLess(p, q) == p.line < q.line \/ (p.line = q.line /\ p.offset < q.offset)

\* Range::new orders its two positions
RangeNew(a, b) == IF PosLess(b, a) THEN [start |-> b, end |-> a]
                                   ELSE [start |-> a, end |-> b]

\* LineRange::new orders its two line indices
LineRangeNew(a, b) == IF b < a THEN [start |-> b, end |-> a]
                               ELSE [start |-> a, end |-> b]

Min(x, y) == IF x < y THEN x ELSE y

\* ------------------------------------------------------ buffer primitives
\* scan the text for the position, counting lines and offsets
RECURSIVE scan_offset(_, _, _, _, _)
scan_offset(data, pos, i, line, off) ==
    IF line = pos.line /\ off = pos.offset THEN i - 1
    ELSE IF i > Len(data) THEN NoOffset
    ELSE IF data[i] = NL THEN scan_offset(data, pos, i + 1, line + 1, 0)
    ELSE scan_offset(data, pos, i + 1, line, off + 1)

find_offset(data, pos) == scan_offset(data, pos, 1, 0, 0)

in_bounds(data, pos) == find_offset(data, pos) # NoOffset

line_count(data) == Cardinality({i \in 1..Len(data) : data[i] = NL}) + 1

\* length of line n of the text, 0 when there is no such line
line_length(data, n) ==
    LET s == find_offset(data, Position(n, 0))
        rest == {i \in (s + 1)..Len(data) : data[i] = NL}
        e == IF rest = {} THEN Len(data)
             ELSE (CHOOSE i \in rest : \A j \in rest : i <= j) - 1
    IN IF s = NoOffset THEN 0 ELSE e - s

\* Buffer::read: None (has |-> FALSE) unless both ends are positions of the text
read(data, range) ==
    LET s == find_offset(data, range.start)
        e == find_offset(data, range.end)
    IN IF s = NoOffset \/ e = NoOffset
       THEN [has |-> FALSE, text |-> <<>>]
       ELSE [has |-> TRUE, text |-> SubSeq(data, s + 1, e)]

\* Buffer::delete_range: nothing when the start is no position of the text;
\* an end that is no position deletes up to the start of the line after it,
\* or to the end of the text
delete_range(data, range) ==
    LET s == find_offset(data, range.start)
        e == find_offset(data, range.end)
        n == find_offset(data, Position(range.end.line + 1, 0))
        upto == IF e # NoOffset THEN e
                ELSE IF n # NoOffset THEN n
                ELSE Len(data)
    IN IF s = NoOffset THEN data
       ELSE SubSeq(data, 1, s) \o SubSeq(data, upto + 1, Len(data))

\* Buffer::insert at the cursor; nothing when the cursor is no position
insert(data, cursor, text) ==
    LET s == find_offset(data, cursor)
    IN IF s = NoOffset THEN data
       ELSE SubSeq(data, 1, s) \o text \o SubSeq(data, s + 1, Len(data))

\* Cursor::move_to moves only to a position of the text
move_to(data, cursor, pos) == IF in_bounds(data, pos) THEN pos ELSE cursor

\* number of the last line of the text
last_line(data) == line_count(data) - 1

\* Cursor::move_to_first_line and move_to_last_line: the cursor goes to its
\* sticky offset on that line, or to the end of a shorter line; the sticky
\* offset is the offset of the last move_to
move_to_first_line(data, cursor) ==
    move_to(data, cursor, Position(0, Min(line_length(data, 0), cursor.offset)))

move_to_last_line(data, cursor) ==
    move_to(data, cursor,
            Position(last_line(data),
                     Min(line_length(data, last_line(data)), cursor.offset)))

\* ------------------------------------------------------------ text helpers
\* ordinal comparison of two strings (str's Ord)
StrLeq(s, t) ==
    \/ Len(s) <= Len(t) /\ \A i \in 1..Len(s) : s[i] = t[i]
    \/ \E i \in 1..Min(Len(s), Len(t)) :
          s[i] < t[i] /\ \A j \in 1..(i - 1) : s[j] = t[j]

\* the segments of the text between newlines, the last one included
RECURSIVE split(_)
split(text) ==
    LET nls == {i \in 1..Len(text) : text[i] = NL}
        k == CHOOSE i \in nls : \A j \in nls : i <= j
    IN IF nls = {} THEN <<text>>
       ELSE <<SubSeq(text, 1, k - 1)>> \o split(SubSeq(text, k + 1, Len(text)))

\* str::split_terminator('\n'): an empty last segment is dropped
split_terminator(text) ==
    LET segs == split(text)
    IN IF segs[Len(segs)] = <<>> THEN SubSeq(segs, 1, Len(segs) - 1) ELSE segs

\* place x after the elements that are not greater than it
RECURSIVE insert_sorted(_, _)
insert_sorted(sorted, x) ==
    IF sorted = <<>> THEN <<x>>
    ELSE IF StrLeq(sorted[Len(sorted)], x) THEN Append(sorted, x)
    ELSE Append(insert_sorted(SubSeq(sorted, 1, Len(sorted) - 1), x),
                sorted[Len(sorted)])

\* mutant: a line equal to one already sorted is dropped
RECURSIVE sort_dedup(_)
sort_dedup(lines) ==
    IF lines = <<>> THEN <<>>
    ELSE IF \E i \in 1..(Len(lines) - 1) : lines[i] = lines[Len(lines)]
    THEN sort_dedup(SubSeq(lines, 1, Len(lines) - 1))
    ELSE insert_sorted(sort_dedup(SubSeq(lines, 1, Len(lines) - 1)),
                       lines[Len(lines)])

\* slice::sort: stable, ascending
RECURSIVE sort(_)
sort(lines) ==
    IF lines = <<>> THEN <<>>
    ELSE insert_sorted(sort(SubSeq(lines, 1, Len(lines) - 1)), lines[Len(lines)])

\* [&str]::join("\n")
RECURSIVE join(_)
join(lines) ==
    IF lines = <<>> THEN <<>>
    ELSE IF Len(lines) = 1 THEN lines[1]
    ELSE lines[1] \o <<NL>> \o join(Tail(lines))

\* ------------------------------------------------------------------ modes
NoRange == [start |-> Position(0, 0), end |-> Position(0, 0)]
NoResults == [some |-> FALSE, selected |-> FALSE, range |-> NoRange]

NormalMode == [kind |-> "Normal", anchor |-> Position(0, 0), results |-> NoResults]
InsertMode == [kind |-> "Insert", anchor |-> Position(0, 0), results |-> NoResults]
SelectMode(anchor) == [kind |-> "Select", anchor |-> anchor, results |-> NoResults]
\* the anchor of SelectLine is a line number, kept in anchor.line
SelectLineMode(line) ==
    [kind |-> "SelectLine", anchor |-> Position(line, 0), results |-> NoResults]
SearchMode(results) ==
    [kind |-> "Search", anchor |-> Position(0, 0), results |-> results]

\* -------------------------------------------------------------- clipboard
NoContent == [kind |-> "None", text |-> <<>>]
Inline(text) == [kind |-> "Inline", text |-> text]
Block(text) == [kind |-> "Block", text |-> text]

\* what a command did besides changing the application: the result of its
\* copy step, the text sort_lines read and inserted, the calls made to the
\* buffer, the clipboard and the view
NoObs == [copy |-> "NA", read |-> <<>>, inserted |-> <<>>, calls |-> <<>>]

Out(a, r, o) == [app |-> a, res |-> r, obs |-> o]

\* Clipboard::set_content: the content is replaced; syncing may fail
set_content(a, content, fails) ==
    Out([a EXCEPT !.clipboard = content],
        IF fails THEN ERR_CLIPBOARD ELSE OK,
        [NoObs EXCEPT !.calls = <<"set_content">>])

\* ----------------------------------------------------------- mode switches
switch_to_normal_mode(a, fails) ==
    IF fails THEN Out(a, ERR_SWITCH, NoObs)
    ELSE Out([a EXCEPT !.mode = NormalMode], OK, NoObs)

switch_to_insert_mode(a, fails) ==
    IF ~a.hasBuffer THEN Out(a, BUFFER_MISSING, NoObs)
    ELSE IF fails THEN Out(a, ERR_SWITCH, NoObs)
    ELSE Out([a EXCEPT !.mode = InsertMode], OK, NoObs)

\* the anchor of the new mode is the cursor's line
switch_to_select_line_mode(a, fails) ==
    IF ~a.hasBuffer THEN Out(a, BUFFER_MISSING, NoObs)
    ELSE IF fails THEN Out(a, ERR_SWITCH, NoObs)
    ELSE Out([a EXCEPT !.mode = SelectLineMode(a.cursor.line)], OK, NoObs)

scroll_to_cursor(a, fails) ==
    Out(a, IF fails THEN ERR_SCROLL ELSE OK, NoObs)

\* ----------------------------------------------------------------- ranges
\* util::inclusive_range: from the start of the first line to the start of
\* the line after the last one, or to the end of the last line when the
\* text has no line after it
inclusive_range(line_range, data) ==
    LET next_line == line_range.end + 1
        end_position ==
            IF line_count(data) > next_line
            THEN Position(next_line, 0)
            ELSE Position(line_range.end, line_length(data, line_range.end))
    IN RangeNew(Position(line_range.start, 0), end_position)

\* SelectLineMode::to_range
to_range(mode, cursor, data) ==
    inclusive_range(LineRangeNew(mode.anchor.line, cursor.line), data)

\* --------------------------------------------------------------- commands
Err(a, e) == Out(a, e, NoObs)

\* a let binding: the value x is computed once and named in F
Let(x, F(_)) == F(x)

\* buffer.delete_range(range), buffer.cursor.move_to(pos), buffer.insert(text)
\* on the current buffer of the application
buffer_delete_range(a, range) ==
    [a EXCEPT !.data = delete_range(a.data, range)]

cursor_move_to(a, pos) ==
    [a EXCEPT !.cursor = move_to(a.data, a.cursor, pos)]

buffer_insert(a, text) ==
    [a EXCEPT !.data = insert(a.data, a.cursor, text)]

\* mutant: the SelectLine arm takes the anchor and the cursor as positions
selection_to_delete_charwise(a) == RangeNew(a.cursor, a.mode.anchor)

\* the range delete removes in Select and SelectLine mode
selection_to_delete(a) ==
    IF a.mode.kind = "Select" THEN RangeNew(a.cursor, a.mode.anchor)
    ELSE to_range(a.mode, a.cursor, a.data)

\* mutant: the line range of the SelectLine arm stops before its last line
selection_to_copy_exclusive(a) ==
    IF a.mode.kind = "Select" THEN RangeNew(a.cursor, a.mode.anchor)
    ELSE RangeNew(Position(a.mode.anchor.line, 0), Position(a.cursor.line, 0))

\* the range copy_to_clipboard reads in Select and SelectLine mode
selection_to_copy(a) ==
    IF a.mode.kind = "Select" THEN RangeNew(a.cursor, a.mode.anchor)
    ELSE inclusive_range(LineRangeNew(a.mode.anchor.line, a.cursor.line), a.data)

\* mutant: the anchor is moved to the start of the range with the cursor
delete_selection_collapsing(a, delete_range_) ==
    Out([cursor_move_to(buffer_delete_range(a, delete_range_),
                        delete_range_.start)
            EXCEPT !.mode.anchor = delete_range_.start],
        OK, [NoObs EXCEPT !.calls = <<"delete_range", "move_to">>])

\* mutant: the cursor is not moved to the start of the range
delete_selection_no_move(a, delete_range_) ==
    Out(buffer_delete_range(a, delete_range_),
        OK, [NoObs EXCEPT !.calls = <<"delete_range">>])

\* the two calls of the Select and SelectLine arms of delete
delete_selection(a, delete_range_) ==
    Out(cursor_move_to(buffer_delete_range(a, delete_range_), delete_range_.start),
        OK, [NoObs EXCEPT !.calls = <<"delete_range", "move_to">>])

\* mutant: the Search arm deletes from the cursor to the end of the match
delete_search_from_cursor(a) ==
    IF ~a.hasBuffer THEN Err(a, BUFFER_MISSING)
    ELSE IF a.mode.kind \in {"Select", "SelectLine"}
    THEN delete_selection(a, selection_to_delete(a))
    ELSE IF a.mode.kind = "Search" THEN
        IF a.mode.results.some /\ a.mode.results.selected
        THEN Out(buffer_delete_range(a,
                    RangeNew(a.cursor, a.mode.results.range.end)),
                 OK, [NoObs EXCEPT !.calls = <<"delete_range">>])
        ELSE Err(a, ERR_DELETE_SEARCH)
    ELSE Err(a, ERR_DELETE_MODE)

\* mutant: the Search arm asks for a result set, not for a selected match
delete_search_unselected(a) ==
    IF ~a.hasBuffer THEN Err(a, BUFFER_MISSING)
    ELSE IF a.mode.kind \in {"Select", "SelectLine"}
    THEN delete_selection(a, selection_to_delete(a))
    ELSE IF a.mode.kind = "Search" THEN
        IF a.mode.results.some
        THEN Out(buffer_delete_range(a, a.mode.results.range),
                 OK, [NoObs EXCEPT !.calls = <<"delete_range">>])
        ELSE Err(a, ERR_DELETE_SEARCH)
    ELSE Err(a, ERR_DELETE_MODE)

\* mutant: the catch-all arm returns Ok instead of an error
delete_silent(a) ==
    IF ~a.hasBuffer THEN Err(a, BUFFER_MISSING)
    ELSE IF a.mode.kind \in {"Select", "SelectLine"}
    THEN delete_selection(a, selection_to_delete(a))
    ELSE IF a.mode.kind = "Search" THEN
        IF a.mode.results.some /\ a.mode.results.selected
        THEN Out(buffer_delete_range(a, a.mode.results.range),
                 OK, [NoObs EXCEPT !.calls = <<"delete_range">>])
        ELSE Err(a, ERR_DELETE_SEARCH)
    ELSE Out(a, OK, NoObs)

delete(a) ==
    IF ~a.hasBuffer THEN Err(a, BUFFER_MISSING)
    ELSE IF a.mode.kind \in {"Select", "SelectLine"}
    THEN delete_selection(a, selection_to_delete(a))
    ELSE IF a.mode.kind = "Search" THEN
        IF a.mode.results.some /\ a.mode.results.selected
        THEN Out(buffer_delete_range(a, a.mode.results.range),
                 OK, [NoObs EXCEPT !.calls = <<"delete_range">>])
        ELSE Err(a, ERR_DELETE_SEARCH)
    ELSE Err(a, ERR_DELETE_MODE)

\* mutant: a Search arm that copies the selected match
copy_to_clipboard_search(a, clipFails) ==
    IF ~a.hasBuffer THEN Err(a, BUFFER_MISSING)
    ELSE IF a.mode.kind \in {"Select", "SelectLine"} THEN
        Let(read(a.data, selection_to_copy(a)), LAMBDA data :
            IF ~data.has THEN Err(a, ERR_COPY_READ)
            ELSE IF a.mode.kind = "Select"
            THEN set_content(a, Inline(data.text), clipFails)
            ELSE set_content(a, Block(data.text), clipFails))
    ELSE IF a.mode.kind = "Search" /\ a.mode.results.some
                                   /\ a.mode.results.selected THEN
        Let(read(a.data, a.mode.results.range), LAMBDA data :
            IF ~data.has THEN Err(a, ERR_COPY_READ)
            ELSE set_content(a, Inline(data.text), clipFails))
    ELSE Err(a, ERR_COPY_MODE)

\* mutant: a read that fails empties the clipboard
copy_to_clipboard_clearing(a, clipFails) ==
    IF ~a.hasBuffer THEN Err(a, BUFFER_MISSING)
    ELSE IF a.mode.kind \in {"Select", "SelectLine"} THEN
        Let(read(a.data, selection_to_copy(a)), LAMBDA data :
            IF ~data.has
            THEN Err([a EXCEPT !.clipboard = NoContent], ERR_COPY_READ)
            ELSE IF a.mode.kind = "Select"
            THEN set_content(a, Inline(data.text), clipFails)
            ELSE set_content(a, Block(data.text), clipFails))
    ELSE Err(a, ERR_COPY_MODE)

\* mutant: the SelectLine arm stores Inline content too
copy_to_clipboard_inline(a, clipFails) ==
    IF ~a.hasBuffer THEN Err(a, BUFFER_MISSING)
    ELSE IF a.mode.kind \in {"Select", "SelectLine"} THEN
        Let(read(a.data, selection_to_copy(a)), LAMBDA data :
            IF ~data.has THEN Err(a, ERR_COPY_READ)
            ELSE set_content(a, Inline(data.text), clipFails))
    ELSE Err(a, ERR_COPY_MODE)

copy_to_clipboard(a, clipFails) ==
    IF ~a.hasBuffer THEN Err(a, BUFFER_MISSING)
    ELSE IF a.mode.kind \in {"Select", "SelectLine"} THEN
        Let(read(a.data, selection_to_copy(a)), LAMBDA data :
            IF ~data.has THEN Err(a, ERR_COPY_READ)
            ELSE IF a.mode.kind = "Select"
            THEN set_content(a, Inline(data.text), clipFails)
            ELSE set_content(a, Block(data.text), clipFails))
    ELSE Err(a, ERR_COPY_MODE)

\* a step that follows the copy step keeps the copy step's result and calls
AfterCopy(c, o) ==
    Out(o.app, o.res,
        [o.obs EXCEPT !.copy = c.res, !.calls = c.obs.calls \o o.obs.calls])

\* mutant: the failure of the copy step is returned
copy_and_delete_propagating(a, clipFails) ==
    Let(copy_to_clipboard(a, clipFails), LAMBDA c :
        IF c.res # OK THEN AfterCopy(c, Out(c.app, c.res, NoObs))
        ELSE AfterCopy(c, delete(c.app)))

copy_and_delete(a, clipFails) ==
    Let(copy_to_clipboard(a, clipFails), LAMBDA c :
        AfterCopy(c, delete(c.app)))

\* mutant: the failure of delete is dropped like the one of the copy step
change_ignoring_delete(a, clipFails, switchFails, scrollFails) ==
    Let(copy_to_clipboard(a, clipFails), LAMBDA c :
    Let(delete(c.app), LAMBDA d :
        Let(switch_to_insert_mode(d.app, switchFails), LAMBDA s :
            IF s.res # OK THEN AfterCopy(c, Out(s.app, s.res, d.obs))
            ELSE AfterCopy(c,
                    Out(s.app, scroll_to_cursor(s.app, scrollFails).res,
                        [d.obs EXCEPT
                           !.calls = d.obs.calls \o <<"scroll_to_cursor">>])))))

change(a, clipFails, switchFails, scrollFails) ==
    Let(copy_to_clipboard(a, clipFails), LAMBDA c :
    Let(delete(c.app), LAMBDA d :
        IF d.res # OK THEN AfterCopy(c, d)
        ELSE Let(switch_to_insert_mode(d.app, switchFails), LAMBDA s :
            IF s.res # OK THEN AfterCopy(c, Out(s.app, s.res, d.obs))
            ELSE AfterCopy(c,
                    Out(s.app, scroll_to_cursor(s.app, scrollFails).res,
                        [d.obs EXCEPT
                           !.calls = d.obs.calls \o <<"scroll_to_cursor">>])))))

\* mutant: the failure of the copy step is dropped
copy_ignoring_error(a, clipFails, switchFails) ==
    Let(copy_to_clipboard(a, clipFails), LAMBDA c :
        AfterCopy(c, switch_to_normal_mode(c.app, switchFails)))

copy(a, clipFails, switchFails) ==
    Let(copy_to_clipboard(a, clipFails), LAMBDA c :
        IF c.res # OK THEN AfterCopy(c, Out(c.app, c.res, NoObs))
        ELSE AfterCopy(c, switch_to_normal_mode(c.app, switchFails)))

\* mutant: the cursor is not moved to the last line after the mode switch
select_all_no_last_line(a, switchFails) ==
    IF ~a.hasBuffer THEN Err(a, BUFFER_MISSING)
    ELSE
        Let(switch_to_select_line_mode(
                [a EXCEPT !.cursor = move_to_first_line(a.data, a.cursor)],
                switchFails), LAMBDA s :
            IF s.res # OK THEN Err(s.app, s.res) ELSE Out(s.app, OK, NoObs))

\* mutant: without a buffer the mode is switched before the error is returned
select_all_switch_first(a, switchFails) ==
    IF ~a.hasBuffer
    THEN Err([a EXCEPT !.mode = SelectLineMode(0)], BUFFER_MISSING)
    ELSE
        Let(switch_to_select_line_mode(
                [a EXCEPT !.cursor = move_to_first_line(a.data, a.cursor)],
                switchFails), LAMBDA s :
            IF s.res # OK THEN Err(s.app, s.res)
            ELSE Out([s.app EXCEPT
                        !.cursor = move_to_last_line(s.app.data, s.app.cursor)],
                     OK, NoObs))

\* mutant: the cursor is not moved to the first line before the mode switch
select_all_no_first_line(a, switchFails) ==
    IF ~a.hasBuffer THEN Err(a, BUFFER_MISSING)
    ELSE
        Let(switch_to_select_line_mode(a, switchFails), LAMBDA s :
            IF s.res # OK THEN Err(s.app, s.res)
            ELSE Out([s.app EXCEPT
                        !.cursor = move_to_last_line(s.app.data, s.app.cursor)],
                     OK, NoObs))

select_all(a, switchFails) ==
    IF ~a.hasBuffer THEN Err(a, BUFFER_MISSING)
    ELSE
        Let(switch_to_select_line_mode(
                [a EXCEPT !.cursor = move_to_first_line(a.data, a.cursor)],
                switchFails), LAMBDA s :
            IF s.res # OK THEN Err(s.app, s.res)
            ELSE Out([s.app EXCEPT
                        !.cursor = move_to_last_line(s.app.data, s.app.cursor)],
                     OK, NoObs))

\* the range sort_lines works on in SelectLine mode
lines_to_sort(a) ==
    inclusive_range(LineRangeNew(a.mode.anchor.line, a.cursor.line), a.data)

\* mutant: the final newline is not added again
sorted_text_no_newline(text) == join(sort(split_terminator(text)))

\* mutant: split in place of split_terminator
sorted_text_split(text) == join(sort(split(text))) \o <<NL>>

\* the lines of the text, sorted, joined and ended by a newline
sorted_text(text) == join(sort(split_terminator(text))) \o <<NL>>

\* mutant: the operation group is opened before the lines are read
sort_range_group_before_read(a, line_range, switchFails) ==
    Let(read(a.data, line_range), LAMBDA text :
        IF ~text.has
        THEN Out(a, ERR_SORT_READ,
                 [NoObs EXCEPT !.calls = <<"start_operation_group">>])
        ELSE Let(sorted_text(text.text), LAMBDA lines :
             Let(switch_to_normal_mode(
                    buffer_insert(
                        cursor_move_to(buffer_delete_range(a, line_range),
                                       line_range.start),
                        lines),
                    switchFails), LAMBDA s :
                 Out(s.app, s.res,
                     [NoObs EXCEPT !.read = text.text, !.inserted = lines,
                                   !.calls = <<"start_operation_group",
                                               "delete_range", "move_to",
                                               "insert", "end_operation_group">>]))))

\* sort_lines once the range is known
sort_range(a, line_range, switchFails) ==
    Let(read(a.data, line_range), LAMBDA text :
        IF ~text.has THEN Err(a, ERR_SORT_READ)
        ELSE Let(sorted_text(text.text), LAMBDA lines :
             Let(switch_to_normal_mode(
                    buffer_insert(
                        cursor_move_to(buffer_delete_range(a, line_range),
                                       line_range.start),
                        lines),
                    switchFails), LAMBDA s :
                 Out(s.app, s.res,
                     [NoObs EXCEPT !.read = text.text, !.inserted = lines,
                                   !.calls = <<"start_operation_group",
                                               "delete_range", "move_to",
                                               "insert", "end_operation_group">>]))))

sort_lines(a, switchFails) ==
    IF ~a.hasBuffer THEN Err(a, BUFFER_MISSING)
    ELSE IF a.mode.kind # "SelectLine" THEN Err(a, ERR_SORT_MODE)
    ELSE sort_range(a, lines_to_sort(a), switchFails)

\* ---------------------------------------------------------- initial states
\* the strings over the alphabet of length n
RECURSIVE Strings(_)
Strings(n) ==
    IF n = 0 THEN {<<>>}
    ELSE LET shorter == Strings(n - 1)
         IN shorter \cup {Append(t, ch) : t \in {u \in shorter : Len(u) = n - 1},
                                          ch \in Alphabet}

Positions(data) ==
    {p \in {Position(l, o) : l \in 0..Len(data), o \in 0..Len(data)} :
        in_bounds(data, p)}

\* matches of a search: non-empty ranges within one line
Matches(data) ==
    {[start |-> p, end |-> q] : p, q \in Positions(data)} \cap
    {r \in [start : Positions(data), end : Positions(data)] :
        r.start.line = r.end.line /\ r.start.offset < r.end.offset}

Modes(data) ==
    {NormalMode, InsertMode}
    \cup {SelectMode(p) : p \in Positions(data)}
    \cup {SelectLineMode(l) : l \in 0..last_line(data)}
    \cup {SearchMode(NoResults),
          SearchMode([some |-> TRUE, selected |-> FALSE, range |-> NoRange])}
    \cup {SearchMode([some |-> TRUE, selected |-> TRUE, range |-> r]) :
            r \in Matches(data)}

\* what the clipboard holds when the first command runs: the commands lead
\* to every mode but Search with a clipboard they wrote, so only a Search
\* mode and an application without buffer start with earlier content too
Clipboards(hasBuffer, mode) ==
    IF hasBuffer /\ mode.kind # "Search" THEN {NoContent}
    ELSE {NoContent, Inline(<<97>>)}

NoBufferApp(mode, clipboard) ==
    [hasBuffer |-> FALSE, data |-> <<>>, cursor |-> Position(0, 0),
     mode |-> mode, clipboard |-> clipboard]

Init ==
    /\ \/ \E data \in Strings(MaxLen) :
          \E cursor \in Positions(data), mode \in Modes(data) :
             \E clipboard \in Clipboards(TRUE, mode) :
                app = [hasBuffer |-> TRUE, data |-> data, cursor |-> cursor,
                       mode |-> mode, clipboard |-> clipboard]
       \/ \E mode \in {NormalMode, InsertMode, SelectMode(Position(0, 0)),
                       SelectLineMode(0), SearchMode(NoResults)} :
             \E clipboard \in Clipboards(FALSE, mode) :
                app = NoBufferApp(mode, clipboard)
    /\ pre = app
    /\ cmd = "none"
    /\ result = OK
    /\ aux = NoObs
    /\ prev = [cmd |-> "none", result |-> OK]
    /\ steps = 0

\* ---------------------------------------------------------------- actions
Run(name, out) ==
    /\ steps' = steps + 1
    /\ app' = out.app
    /\ pre' = app
    /\ cmd' = name
    /\ result' = out.res
    /\ aux' = out.obs
    /\ prev' = [cmd |-> cmd, result |-> result]

\* A collaborator's failure is an input of the command; it is drawn only for
\* a step the command reaches, the others get FALSE.
Faults(reached) == IF reached THEN BOOLEAN ELSE {FALSE}

Selecting(a) == a.hasBuffer /\ a.mode.kind \in {"Select", "SelectLine"}

Deleting(a) ==
    \/ Selecting(a)
    \/ a.hasBuffer /\ a.mode.kind = "Search"
         /\ a.mode.results.some /\ a.mode.results.selected

\* at most MaxSteps commands are run; a command that left the application as
\* it was is not followed further, since what follows it is what follows the
\* state it started from
CanRun == steps < MaxSteps /\ (steps = 0 \/ app # pre)

Delete == CanRun /\ Run("delete", delete(app))

CopyAndDelete == CanRun /\ \E clipFails \in Faults(Selecting(app)) :
    Run("copy_and_delete", copy_and_delete(app, clipFails))

Change == CanRun /\ \E clipFails \in Faults(Selecting(app)) :
    \E switchFails \in Faults(Deleting(app)) :
        \E scrollFails \in Faults(Deleting(app) /\ ~switchFails) :
            Run("change", change(app, clipFails, switchFails, scrollFails))

Copy == CanRun /\ \E clipFails \in Faults(Selecting(app)) :
    \E switchFails \in Faults(Selecting(app) /\ ~clipFails) :
        Run("copy", copy(app, clipFails, switchFails))

SelectAll == CanRun /\ \E switchFails \in Faults(app.hasBuffer) :
    Run("select_all", select_all(app, switchFails))

SortLines == CanRun /\
    \E switchFails \in Faults(app.hasBuffer /\ app.mode.kind = "SelectLine") :
        Run("sort_lines", sort_lines(app, switchFails))

Next == Delete \/ CopyAndDelete \/ Change \/ Copy \/ SelectAll \/ SortLines

Spec == Init /\ [][Next]_vars

\* ======================================================================
\* Properties. pre is the application before the last command, cmd its
\* name, result what it returned and aux what it did on the way; prev is
\* the name and the result of the command before it.
\* ======================================================================

\* the position of the i-th character of the text
CharPos(data, i) ==
    LET before == {k \in 1..(i - 1) : data[k] = NL}
        lastNL == IF before = {} THEN 0
                  ELSE CHOOSE k \in before : \A j \in before : j <= k
    IN Position(Cardinality(before), i - 1 - lastNL)

\* the characters of the text picked by their indices, in order
Pick(data, idx) ==
    [k \in 1..Cardinality(idx) |->
        data[CHOOSE i \in idx : Cardinality({j \in idx : j < i}) = k - 1]]

InSpan(p, lo, hi) == ~PosLess(p, lo) /\ PosLess(p, hi)

\* the text whose positions lie in [lo, hi), and the text outside of it
SpanText(data, lo, hi) ==
    Pick(data, {i \in 1..Len(data) : InSpan(CharPos(data, i), lo, hi)})

WithoutSpan(data, lo, hi) ==
    Pick(data, {i \in 1..Len(data) : ~InSpan(CharPos(data, i), lo, hi)})

Lower(p, q) == IF PosLess(q, p) THEN q ELSE p
Upper(p, q) == IF PosLess(q, p) THEN p ELSE q

NumLines(data) == Cardinality({i \in 1..Len(data) : data[i] = NL}) + 1

LowLine(a) == Min(a.mode.anchor.line, a.cursor.line)
HighLine(a) == IF a.mode.anchor.line < a.cursor.line THEN a.cursor.line
               ELSE a.mode.anchor.line

\* C1: delete in Select mode with anchor # cursor removes exactly the text in
\* [min(anchor, cursor), max(anchor, cursor)) under (line, offset) order,
\* leaves the other text as it was and the cursor at min(anchor, cursor).
C1_DeleteSelect ==
    (cmd = "delete" /\ pre.hasBuffer /\ pre.mode.kind = "Select"
        /\ pre.mode.anchor # pre.cursor)
    => /\ result = OK
       /\ app.data = WithoutSpan(pre.data, Lower(pre.mode.anchor, pre.cursor),
                                 Upper(pre.mode.anchor, pre.cursor))
       /\ app.cursor = Lower(pre.mode.anchor, pre.cursor)

\* a selection over two lines, with the anchor above the cursor, was deleted
C1_Witness ==
    /\ cmd = "delete" /\ result = OK /\ pre.hasBuffer
    /\ pre.mode.kind = "Select"
    /\ pre.mode.anchor.line < pre.cursor.line
    /\ Len(app.data) > 0 /\ Len(app.data) < Len(pre.data)

\* C2: delete in SelectLine mode removes exactly the lines min(anchor_line,
\* cursor_line)..max(anchor_line, cursor_line): every character of these
\* lines, the newline ending each of them included, and nothing else; so the
\* newline of the last removed line goes when a line follows it, and the
\* newline before the first removed line stays when the last line is removed.
C2_DeleteSelectLine ==
    (cmd = "delete" /\ pre.hasBuffer /\ pre.mode.kind = "SelectLine"
        /\ HighLine(pre) < NumLines(pre.data))
    => /\ result = OK
       /\ app.data = Pick(pre.data,
            {i \in 1..Len(pre.data) :
                CharPos(pre.data, i).line \notin LowLine(pre)..HighLine(pre)})
       /\ HighLine(pre) < NumLines(pre.data) - 1
            => NumLines(app.data)
                 = NumLines(pre.data) - (HighLine(pre) - LowLine(pre) + 1)
       /\ (HighLine(pre) = NumLines(pre.data) - 1 /\ LowLine(pre) > 0)
            => /\ NumLines(app.data) = LowLine(pre) + 1
               /\ app.data[Len(app.data)] = NL

\* the last lines of a text, not the first one, were deleted
C2_Witness ==
    /\ cmd = "delete" /\ result = OK /\ pre.hasBuffer
    /\ pre.mode.kind = "SelectLine"
    /\ HighLine(pre) = NumLines(pre.data) - 1
    /\ LowLine(pre) > 0 /\ LowLine(pre) < HighLine(pre)
    /\ Len(app.data) < Len(pre.data)

\* lines followed by another line were deleted
C2_WitnessInner ==
    /\ cmd = "delete" /\ result = OK /\ pre.hasBuffer
    /\ pre.mode.kind = "SelectLine"
    /\ HighLine(pre) < NumLines(pre.data) - 1
    /\ Len(app.data) > 0

C4_SelectAll ==
    (cmd = "select_all" /\ result = OK /\ pre.data # <<>>)
    => /\ app.mode = SelectLineMode(0)
       /\ app.cursor.line = NumLines(pre.data) - 1
       /\ app.data = pre.data

\* select_all ran with the cursor on a middle line, outside SelectLine mode
C4_Witness ==
    /\ cmd = "select_all" /\ result = OK
    /\ pre.cursor.line > 0 /\ pre.cursor.line < NumLines(pre.data) - 1
    /\ pre.mode.kind = "Select"
    /\ app.cursor.line = 2

\* sort_lines got to the point of rewriting the buffer
Sorted == cmd = "sort_lines" /\ aux.calls # <<>>

OnlyNewlines(text) == \A i \in 1..Len(text) : text[i] = NL

EndsInNewline(text) == text # <<>> /\ text[Len(text)] = NL

Ascending(lines) ==
    \A i, j \in 1..Len(lines) : i < j => StrLeq(lines[i], lines[j])

\* C5 as claimed: the text sort_lines inserts ends in exactly one newline,
\* its last character is a newline and the one before it, if any, is not.
C5_ExactlyOneNewline ==
    Sorted => /\ EndsInNewline(aux.inserted)
              /\ Len(aux.inserted) > 1
                   => aux.inserted[Len(aux.inserted) - 1] # NL

\* C5 as amended: the text sort_lines inserts ends in a newline, and the
\* character before that newline is a newline exactly when the selected
\* text is two or more empty lines, which are inserted as they were.
C5_EndsInNewline ==
    Sorted => /\ EndsInNewline(aux.inserted)
              /\ (Len(aux.inserted) > 1
                    /\ aux.inserted[Len(aux.inserted) - 1] = NL)
                 <=> (Len(aux.read) >= 2 /\ OnlyNewlines(aux.read))
              /\ (Len(aux.read) >= 2 /\ OnlyNewlines(aux.read))
                 => aux.inserted = aux.read

\* lines without a final newline were sorted, and empty lines were
C5_Witness ==
    /\ Sorted /\ result = OK
    /\ Len(aux.read) >= 2
    /\ \/ OnlyNewlines(aux.read)
       \/ ~EndsInNewline(aux.read)

\* C6 as claimed: when the selected lines are already in ascending order the
\* text sort_lines inserts is the text it read and the buffer text is left
\* as it was.
C6_SortedIsUnchanged ==
    (Sorted /\ Ascending(split_terminator(aux.read)))
    => /\ aux.inserted = aux.read
       /\ app.data = pre.data

\* C6 as amended: when the selected lines are already in ascending order and
\* the selected text ends in a newline, the text sort_lines inserts is the
\* text it read and the buffer text is left as it was; a selected text that
\* does not end in a newline gains one; and sorting the inserted text again
\* gives the inserted text.
C6_Idempotent ==
    Sorted =>
       /\ (Ascending(split_terminator(aux.read)) /\ EndsInNewline(aux.read))
            => aux.inserted = aux.read /\ app.data = pre.data
       /\ (Ascending(split_terminator(aux.read)) /\ ~EndsInNewline(aux.read))
            => aux.inserted = aux.read \o <<NL>>
       /\ Ascending(split_terminator(aux.inserted))
       /\ EndsInNewline(aux.inserted)
       /\ join(split_terminator(aux.inserted)) \o <<NL>> = aux.inserted

\* two different lines in ascending order, ended by a newline, were sorted
C6_Witness ==
    /\ Sorted /\ result = OK
    /\ Len(split_terminator(aux.read)) = 2
    /\ split_terminator(aux.read)[1] # split_terminator(aux.read)[2]
    /\ Ascending(split_terminator(aux.read))
    /\ EndsInNewline(aux.read)
    /\ app.data = pre.data

\* C7: after a successful copy the clipboard holds the text read(range)
\* gives for the selection as it was, Inline from Select mode and Block from
\* SelectLine mode, and the buffer text is unchanged.
C7_CopyStoresSelection ==
    (cmd = "copy" /\ aux.copy = OK)
    => /\ Selecting(pre)
       /\ read(pre.data, selection_to_copy(pre)).has
       /\ app.clipboard.text = read(pre.data, selection_to_copy(pre)).text
       /\ pre.mode.kind = "Select"
            => /\ app.clipboard.kind = "Inline"
               /\ app.clipboard.text
                    = SpanText(pre.data, Lower(pre.mode.anchor, pre.cursor),
                               Upper(pre.mode.anchor, pre.cursor))
       /\ pre.mode.kind = "SelectLine"
            => /\ app.clipboard.kind = "Block"
               /\ app.clipboard.text
                    = Pick(pre.data,
                        {i \in 1..Len(pre.data) :
                           CharPos(pre.data, i).line
                             \in LowLine(pre)..HighLine(pre)})
       /\ app.data = pre.data

\* whole lines were copied
C7_Witness ==
    /\ cmd = "copy" /\ result = OK /\ aux.copy = OK
    /\ pre.mode.kind = "SelectLine"
    /\ app.clipboard.kind = "Block" /\ Len(app.clipboard.text) >= 2
    /\ app.mode = NormalMode

\* part of a line was copied
C7_WitnessInline ==
    /\ cmd = "copy" /\ result = OK /\ aux.copy = OK
    /\ pre.mode.kind = "Select"
    /\ app.clipboard.kind = "Inline" /\ Len(app.clipboard.text) >= 1

\* C8: when the copy step of copy_and_delete fails in Select or SelectLine
\* mode (set_content fails, or the read for the copy fails) the delete is
\* still done and its result returned: text and cursor end as delete alone
\* leaves them.
C8_DeleteDespiteCopyFailure ==
    (cmd = "copy_and_delete" /\ Selecting(pre) /\ aux.copy # OK)
    => /\ aux.copy \in {ERR_CLIPBOARD, ERR_COPY_READ}
       /\ result = delete(pre).res
       /\ result = OK
       /\ app.data = delete(pre).app.data
       /\ app.cursor = delete(pre).app.cursor
       /\ app.mode = pre.mode
       /\ Len(aux.calls) >= 2
       /\ SubSeq(aux.calls, Len(aux.calls) - 1, Len(aux.calls))
            = <<"delete_range", "move_to">>
       /\ pre.mode.kind = "Select"
            => app.data = WithoutSpan(pre.data,
                              Lower(pre.mode.anchor, pre.cursor),
                              Upper(pre.mode.anchor, pre.cursor))

\* the clipboard failed and text was removed all the same
C8_Witness ==
    /\ cmd = "copy_and_delete" /\ Selecting(pre)
    /\ aux.copy = ERR_CLIPBOARD /\ result = OK
    /\ Len(app.data) < Len(pre.data)

\* the read for the copy failed and text was removed all the same
C8_WitnessRead ==
    /\ cmd = "copy_and_delete" /\ Selecting(pre)
    /\ aux.copy = ERR_COPY_READ /\ result = OK
    /\ Len(app.data) < Len(pre.data)

\* C9: delete, copy and sort_lines in Insert or Normal mode return an error
\* and change nothing: text, cursor, clipboard and mode are as before and no
\* buffer call, so no operation group, was made.
C9_WrongModeChangesNothing ==
    (cmd \in {"delete", "copy", "sort_lines"}
        /\ pre.mode.kind \in {"Insert", "Normal"})
    => /\ result # OK
       /\ pre.hasBuffer
            => result = (CASE cmd = "delete" -> ERR_DELETE_MODE
                           [] cmd = "copy" -> ERR_COPY_MODE
                           [] cmd = "sort_lines" -> ERR_SORT_MODE)
       /\ app = pre
       /\ aux.calls = <<>>

\* delete was refused in Normal mode on a buffer with text
C9_Witness ==
    /\ cmd = "delete" /\ pre.hasBuffer /\ pre.mode.kind = "Normal"
    /\ Len(pre.data) > 0 /\ result = ERR_DELETE_MODE

\* C10: copy returns the failure of its copy step and leaves the mode; the
\* mode changes, to Normal, only after a copy step that succeeded.
C10_CopyPropagates ==
    cmd = "copy"
    => /\ aux.copy # OK => result = aux.copy /\ app.mode = pre.mode
       /\ aux.copy \in {OK, BUFFER_MISSING, ERR_COPY_MODE, ERR_COPY_READ,
                        ERR_CLIPBOARD}
       /\ aux.copy = BUFFER_MISSING <=> ~pre.hasBuffer
       /\ app.mode # pre.mode => aux.copy = OK /\ app.mode = NormalMode
       /\ result = OK => aux.copy = OK /\ app.mode = NormalMode

\* the clipboard failed and copy left Select mode on
C10_Witness ==
    /\ cmd = "copy" /\ aux.copy = ERR_CLIPBOARD /\ result = ERR_CLIPBOARD
    /\ app.mode.kind = "Select"

\* Search mode with a result set that has a selected match
SearchSelected(a) ==
    /\ a.hasBuffer /\ a.mode.kind = "Search"
    /\ a.mode.results.some /\ a.mode.results.selected

\* C11: delete in Search mode with a selected match succeeds and removes
\* exactly the characters of the matched range; the rest of the text, the
\* mode, the cursor and the clipboard are as before, and delete_range is the
\* only call made.
C11_DeleteSearchMatch ==
    (cmd = "delete" /\ SearchSelected(pre))
    => /\ result = OK
       /\ app.data = WithoutSpan(pre.data, pre.mode.results.range.start,
                                 pre.mode.results.range.end)
       /\ app.mode = pre.mode
       /\ app.cursor = pre.cursor
       /\ app.clipboard = pre.clipboard
       /\ aux.calls = <<"delete_range">>

\* a match was removed from a text that has more than the match, with the
\* cursor away from the start of the match
C11_Witness ==
    /\ cmd = "delete" /\ SearchSelected(pre) /\ result = OK
    /\ Len(app.data) < Len(pre.data) /\ Len(app.data) > 0
    /\ pre.cursor # pre.mode.results.range.start
    /\ pre.mode.results.range.start.line = 1

\* C12: delete in Search mode succeeds exactly when there is a result set
\* with a selected match; without results, or without a selection, it
\* returns the search error and text, cursor, mode and clipboard are as
\* before, with no buffer call made.
C12_DeleteSearchNeedsSelection ==
    (cmd = "delete" /\ pre.hasBuffer /\ pre.mode.kind = "Search")
    => /\ result = OK <=> SearchSelected(pre)
       /\ ~SearchSelected(pre)
            => /\ result = ERR_DELETE_SEARCH
               /\ app = pre
               /\ aux.calls = <<>>

\* delete was refused with a result set that has no selected match, on a
\* buffer with text and a clipboard with content
C12_Witness ==
    /\ cmd = "delete" /\ pre.hasBuffer /\ pre.mode.kind = "Search"
    /\ pre.mode.results.some /\ ~pre.mode.results.selected
    /\ result = ERR_DELETE_SEARCH
    /\ Len(pre.data) > 0 /\ pre.clipboard # NoContent

\* delete was refused without a result set
C12_WitnessNoResults ==
    /\ cmd = "delete" /\ pre.hasBuffer /\ pre.mode.kind = "Search"
    /\ ~pre.mode.results.some
    /\ result = ERR_DELETE_SEARCH
    /\ Len(pre.data) > 0

\* how many times a call was made
CountCalls(calls, name) ==
    Cardinality({i \in 1..Len(calls) : calls[i] = name})

\* C13: sort_lines either returns an error before any buffer call and
\* leaves the application as it was, or makes the calls
\* start_operation_group, delete_range, move_to, insert, end_operation_group
\* in this order, once each, and then returns what the switch to normal
\* mode returns; in both cases as many groups are closed as were opened.
C13_SortCallsInOneGroup ==
    cmd = "sort_lines"
    => /\ \/ /\ aux.calls = <<>>
             /\ result \in {BUFFER_MISSING, ERR_SORT_MODE, ERR_SORT_READ}
             /\ app = pre
          \/ /\ aux.calls = <<"start_operation_group", "delete_range",
                              "move_to", "insert", "end_operation_group">>
             /\ result \in {OK, ERR_SWITCH}
             /\ app.data = insert(delete_range(pre.data, lines_to_sort(pre)),
                                  move_to(delete_range(pre.data,
                                                       lines_to_sort(pre)),
                                          pre.cursor,
                                          lines_to_sort(pre).start),
                                  aux.inserted)
       /\ CountCalls(aux.calls, "start_operation_group")
            = CountCalls(aux.calls, "end_operation_group")

\* the lines could not be read, after a delete took the selected lines away
C13_Witness ==
    /\ cmd = "sort_lines" /\ result = ERR_SORT_READ
    /\ pre.mode.kind = "SelectLine"

\* the lines were rewritten in one group and the text changed
C13_WitnessGroup ==
    /\ Sorted /\ result = OK /\ app.data # pre.data
    /\ CountCalls(aux.calls, "start_operation_group") = 1

\* C14: change goes on to delete whatever its copy step returned. When
\* delete fails change returns that error, the mode is as before and the
\* view is not scrolled; when delete succeeds the text and the cursor are
\* the ones delete leaves, and change returns Ok or the error of the switch
\* or of the scroll. The view is scrolled, once and as the last call, only
\* after the switch to insert mode succeeded; after Ok the mode is Insert.
\* set_content, when called, is the first call and delete_range follows it.
C14_ChangeSteps ==
    cmd = "change"
    => /\ delete(pre).res # OK
            => /\ result = delete(pre).res
               /\ app.mode = pre.mode
               /\ app.data = pre.data /\ app.cursor = pre.cursor
               /\ CountCalls(aux.calls, "scroll_to_cursor") = 0
       /\ delete(pre).res = OK
            => /\ result \in {OK, ERR_SWITCH, ERR_SCROLL}
               /\ app.data = delete(pre).app.data
               /\ app.cursor = delete(pre).app.cursor
               /\ CountCalls(aux.calls, "delete_range") = 1
       /\ result = ERR_SWITCH
            => /\ app.mode = pre.mode
               /\ CountCalls(aux.calls, "scroll_to_cursor") = 0
       /\ result \in {OK, ERR_SCROLL}
            => /\ app.mode = InsertMode
               /\ CountCalls(aux.calls, "scroll_to_cursor") = 1
               /\ aux.calls[Len(aux.calls)] = "scroll_to_cursor"
       /\ \A i \in 1..Len(aux.calls) :
            /\ aux.calls[i] = "set_content" => i = 1
            /\ aux.calls[i] = "delete_range"
                 => i = CountCalls(aux.calls, "set_content") + 1

\* the copy step failed at the clipboard and change went on to delete,
\* switch to insert mode and scroll
C14_Witness ==
    /\ cmd = "change" /\ aux.copy = ERR_CLIPBOARD /\ result = OK
    /\ Len(app.data) < Len(pre.data)
    /\ pre.mode.kind = "SelectLine" /\ app.mode = InsertMode

\* delete failed and change stopped there
C14_WitnessDeleteFails ==
    /\ cmd = "change" /\ pre.hasBuffer
    /\ result = ERR_DELETE_SEARCH /\ pre.mode.kind = "Search"

\* the switch to insert mode failed after the text was deleted
C14_WitnessSwitchFails ==
    /\ cmd = "change" /\ result = ERR_SWITCH
    /\ Len(app.data) < Len(pre.data) /\ pre.mode.kind = "Select"

\* C15: without a current buffer every command returns the missing-buffer
\* error and leaves the application, its mode and its clipboard among it, as
\* it was, making no call to the buffer, the clipboard or the view.
C15_NoBufferChangesNothing ==
    (cmd \in {"delete", "copy", "copy_and_delete", "change", "select_all",
              "sort_lines"} /\ ~pre.hasBuffer)
    => /\ result = BUFFER_MISSING
       /\ app.mode = pre.mode
       /\ app.clipboard = pre.clipboard
       /\ app = pre
       /\ aux.calls = <<>>
       /\ cmd \in {"copy", "copy_and_delete", "change"}
            => aux.copy = BUFFER_MISSING

\* select_all was refused without a buffer, in Normal mode and with content
\* on the clipboard
C15_Witness ==
    /\ cmd = "select_all" /\ ~pre.hasBuffer /\ result = BUFFER_MISSING
    /\ pre.mode.kind = "Normal" /\ pre.clipboard # NoContent

\* change was refused without a buffer in a select mode
C15_WitnessChange ==
    /\ cmd = "change" /\ ~pre.hasBuffer /\ result = BUFFER_MISSING
    /\ pre.mode.kind = "SelectLine" /\ pre.clipboard # NoContent

\* the two sequences hold the same elements, each as many times
SameLines(s, t) ==
    /\ Len(s) = Len(t)
    /\ \A i \in 1..Len(s) :
         Cardinality({j \in 1..Len(s) : s[j] = s[i]})
           = Cardinality({j \in 1..Len(t) : t[j] = s[i]})

\* the characters of the lines before, within and after the selected lines
TextAbove(a) ==
    Pick(a.data, {i \in 1..Len(a.data) : CharPos(a.data, i).line < LowLine(a)})

TextWithin(a) ==
    Pick(a.data, {i \in 1..Len(a.data) :
                     /\ CharPos(a.data, i).line >= LowLine(a)
                     /\ CharPos(a.data, i).line <= HighLine(a)})

TextBelow(a) ==
    Pick(a.data, {i \in 1..Len(a.data) : CharPos(a.data, i).line > HighLine(a)})

\* C16 as claimed: after a successful sort_lines the lines of the inserted
\* text are the lines of the selected text, each as many times, in ascending
\* order; the text above and below the selected lines is as before; and the
\* mode is Normal.
C16_SortedLinesArePermutation ==
    (Sorted /\ result = OK)
    => /\ aux.read = TextWithin(pre)
       /\ SameLines(split_terminator(aux.inserted), split_terminator(aux.read))
       /\ Ascending(split_terminator(aux.inserted))
       /\ app.data = TextAbove(pre) \o aux.inserted \o TextBelow(pre)
       /\ app.mode = NormalMode

\* C16 as amended: after a successful sort_lines on a selection that has
\* text, the lines of the inserted text are the lines of the selected text,
\* each as many times, in ascending order; a selection without text (the
\* empty last line of the buffer) has no line and the inserted text is one
\* empty line; in both cases the text above and below the selected lines is
\* as before and the mode is Normal.
C16_SortedLinesOfNonEmptySelection ==
    (Sorted /\ result = OK)
    => /\ aux.read = TextWithin(pre)
       /\ aux.read # <<>>
            => SameLines(split_terminator(aux.inserted),
                         split_terminator(aux.read))
       /\ aux.read = <<>>
            => /\ split_terminator(aux.read) = <<>>
               /\ aux.inserted = <<NL>>
               /\ split_terminator(aux.inserted) = << <<>> >>
       /\ Ascending(split_terminator(aux.inserted))
       /\ app.data = TextAbove(pre) \o aux.inserted \o TextBelow(pre)
       /\ app.mode = NormalMode

\* two lines out of order were sorted
C16_Witness ==
    /\ Sorted /\ result = OK
    /\ Len(split_terminator(aux.read)) = 2
    /\ ~Ascending(split_terminator(aux.read))
    /\ app.data # pre.data

\* a line was sorted with a line above it left alone, and one with a line
\* below it
C16_WitnessAbove ==
    /\ Sorted /\ result = OK
    /\ aux.read # <<>> /\ TextAbove(pre) # <<>>

C16_WitnessBelow ==
    /\ Sorted /\ result = OK
    /\ aux.read # <<>> /\ TextBelow(pre) # <<>>

\* the empty last line of a buffer with text was sorted
C16_WitnessEmpty ==
    /\ Sorted /\ result = OK
    /\ aux.read = <<>> /\ pre.data # <<>>
    /\ Len(app.data) = Len(pre.data) + 1

\* the command before the last one was a select_all that succeeded
AfterSelectAll == prev.cmd = "select_all" /\ prev.result = OK

\* C17: a command that follows a successful select_all finds SelectLine mode
\* with the anchor on line 0 and the cursor on the last line. copy then
\* reads the whole text, never failing to read, and a copy step that
\* succeeds stores it as Block content, the text staying as it is; delete
\* then succeeds and leaves an empty text with the cursor at (0, 0).
C17_SelectAllSpansBuffer ==
    AfterSelectAll
    => /\ pre.mode = SelectLineMode(0)
       /\ pre.cursor.line = NumLines(pre.data) - 1
       /\ cmd = "copy"
            => /\ aux.copy \in {OK, ERR_CLIPBOARD}
               /\ aux.copy = OK
                    => app.clipboard = Block(pre.data) /\ app.data = pre.data
       /\ cmd = "delete"
            => /\ result = OK
               /\ app.data = <<>>
               /\ app.cursor = Position(0, 0)

\* a text of three lines, selected by select_all from another mode, was
\* copied whole
C17_Witness ==
    /\ AfterSelectAll /\ cmd = "copy" /\ result = OK
    /\ NumLines(pre.data) = 3
    /\ app.clipboard = Block(pre.data)

\* a text of two lines without a final newline, selected by select_all, was
\* deleted whole
C17_WitnessDelete ==
    /\ AfterSelectAll /\ cmd = "delete" /\ result = OK
    /\ Len(pre.data) = 3 /\ NumLines(pre.data) = 2
    /\ pre.data[3] # NL
    /\ app.data = <<>>

\* the commands with a copy step
Copying == cmd \in {"copy", "copy_and_delete", "change"}

\* what a copy step that reaches set_content hands to it
Payload(a) ==
    IF a.mode.kind = "Select"
    THEN Inline(SpanText(a.data, Lower(a.mode.anchor, a.cursor),
                         Upper(a.mode.anchor, a.cursor)))
    ELSE Block(TextWithin(a))

\* C18 as claimed: only a copy step that succeeds changes the clipboard,
\* to its payload; delete, select_all and sort_lines, and a copy step that
\* fails, at set_content or before it, leave the clipboard as it was.
C18_OnlySuccessfulCopyWrites ==
    /\ cmd \in {"delete", "select_all", "sort_lines"}
         => app.clipboard = pre.clipboard
    /\ (Copying /\ aux.copy # OK) => app.clipboard = pre.clipboard
    /\ (Copying /\ aux.copy = OK) => app.clipboard = Payload(pre)

\* C18 as amended: the clipboard is changed by set_content only, and
\* set_content replaces the content whether or not it then fails. delete,
\* select_all and sort_lines, and a copy step that fails before set_content
\* (no buffer, wrong mode, failed read), leave the clipboard as it was; a
\* copy step that reaches set_content, succeeding or failing there, leaves
\* the payload of that call in place of any earlier content.
C18_LastSetContentWins ==
    /\ cmd \in {"delete", "select_all", "sort_lines"}
         => app.clipboard = pre.clipboard
    /\ Copying
         => /\ aux.copy \in {OK, ERR_CLIPBOARD, BUFFER_MISSING, ERR_COPY_MODE,
                             ERR_COPY_READ}
            /\ aux.copy \in {BUFFER_MISSING, ERR_COPY_MODE, ERR_COPY_READ}
                 => /\ app.clipboard = pre.clipboard
                    /\ CountCalls(aux.calls, "set_content") = 0
            /\ aux.copy \in {OK, ERR_CLIPBOARD}
                 => /\ app.clipboard = Payload(pre)
                    /\ CountCalls(aux.calls, "set_content") = 1
                    /\ aux.calls[1] = "set_content"
    /\ app.clipboard # pre.clipboard
         => Copying /\ aux.copy \in {OK, ERR_CLIPBOARD}

\* a second copy step replaced the content an earlier one had stored
C18_Witness ==
    /\ Copying /\ aux.copy = OK
    /\ pre.clipboard # NoContent
    /\ app.clipboard # pre.clipboard
    /\ app.clipboard.text # <<>>

\* set_content failed and the clipboard holds the new content all the same
C18_WitnessFailedSync ==
    /\ Copying /\ aux.copy = ERR_CLIPBOARD
    /\ app.clipboard # pre.clipboard
    /\ app.clipboard.text # <<>>

\* the read failed and the content stored earlier stayed
C18_WitnessFailedRead ==
    /\ Copying /\ aux.copy = ERR_COPY_READ
    /\ pre.clipboard # NoContent /\ app.clipboard = pre.clipboard

\* C19: copy_and_delete and change in Search mode with a selected match
\* remove the characters of the match while their copy step fails with the
\* mode error, which is dropped: set_content is not called, the clipboard
\* holds what it held before, and the command returns what delete and the
\* steps after it return.
C19_SearchCutLosesText ==
    (cmd \in {"copy_and_delete", "change"} /\ SearchSelected(pre))
    => /\ aux.copy = ERR_COPY_MODE
       /\ CountCalls(aux.calls, "set_content") = 0
       /\ app.clipboard = pre.clipboard
       /\ app.data = WithoutSpan(pre.data, pre.mode.results.range.start,
                                 pre.mode.results.range.end)
       /\ cmd = "copy_and_delete" => result = OK /\ app.mode = pre.mode
       /\ cmd = "change" => result \in {OK, ERR_SWITCH, ERR_SCROLL}

\* copy_and_delete removed a match that is not what the clipboard held and
\* still holds
C19_Witness ==
    /\ cmd = "copy_and_delete" /\ SearchSelected(pre) /\ result = OK
    /\ pre.clipboard = Inline(<<97>>) /\ app.clipboard = Inline(<<97>>)
    /\ SpanText(pre.data, pre.mode.results.range.start,
                pre.mode.results.range.end) = <<98, 98>>
    /\ Len(app.data) = Len(pre.data) - 2

\* change removed a match and left the clipboard empty
C19_WitnessChange ==
    /\ cmd = "change" /\ SearchSelected(pre) /\ result = OK
    /\ app.clipboard = NoContent /\ app.mode = InsertMode
    /\ Len(app.data) < Len(pre.data)

\* the command before the last one was a delete or a copy_and_delete
AfterDelete == prev.cmd \in {"delete", "copy_and_delete"}

\* C20: delete and copy_and_delete leave the mode, its variant, anchor and
\* search results, exactly as it was, whatever they return. A delete in
\* Select mode that follows one of them therefore works on the range
\* between the cursor the first one left and the anchor as it was before
\* the first one: it removes the characters between the two, and the
\* anchor is still the same after it.
C20_DeleteKeepsModeAndAnchor ==
    /\ cmd \in {"delete", "copy_and_delete"}
         => /\ app.mode = pre.mode
            /\ app.mode.kind = pre.mode.kind
            /\ app.mode.anchor = pre.mode.anchor
    /\ (AfterDelete /\ cmd = "delete" /\ pre.hasBuffer
          /\ pre.mode.kind = "Select")
         => /\ result = OK
            /\ app.data = delete_range(pre.data,
                                       RangeNew(pre.cursor, pre.mode.anchor))
            /\ app.data = WithoutSpan(pre.data,
                                      Lower(pre.mode.anchor, pre.cursor),
                                      Upper(pre.mode.anchor, pre.cursor))
            /\ app.mode.anchor = pre.mode.anchor

\* a delete in Select mode left the anchor behind the text it removed, and
\* the delete that followed removed the text up to that anchor
C20_Witness ==
    /\ AfterDelete /\ prev.result = OK
    /\ cmd = "delete" /\ result = OK
    /\ pre.mode.kind = "Select"
    /\ PosLess(pre.cursor, pre.mode.anchor)
    /\ Len(app.data) < Len(pre.data)
    /\ app.mode.anchor = pre.mode.anchor

\* copy_and_delete removed text in Select mode with the anchor above the
\* cursor and left the anchor where it was
C20_WitnessAnchorAbove ==
    /\ cmd = "copy_and_delete" /\ result = OK
    /\ pre.mode.kind = "Select"
    /\ pre.mode.anchor.line < pre.cursor.line
    /\ Len(app.data) < Len(pre.data)
    /\ app.mode = pre.mode

\* delete returned an error and the mode is as it was
C20_WitnessError ==
    /\ cmd = "delete" /\ result = ERR_DELETE_SEARCH
    /\ app.mode = pre.mode /\ pre.mode.results.some

====
